---- MODULE Spec2Model ----
(***************************************************************************)
(* Custom-elements polyfill: the Node and Element mutation interceptors   *)
(* (Patch/Node.js, Patch/Element.js) over a small document tree, together *)
(* with the reaction-queue core (CustomElementInternals) they call.       *)
(*                                                                         *)
(* The interceptors are translated from the source.  The core they call   *)
(* (pushCEReactionsQueue, popCEReactionsQueue, connectTree, ...) and       *)
(* Utilities.isConnected are not among the source files; they are         *)
(* modelled from the design document (sections 3, 4 and 5).               *)
(*                                                                         *)
(* One interceptor call is one step.  The lifecycle callbacks a call      *)
(* leaves in the frame being drained are invoked one per step (DrainStep); *)
(* no new top-level call is possible until the drain is finished, as the  *)
(* execution is single-threaded and synchronous.                          *)
(***************************************************************************)
EXTENDS Naturals, Sequences, FiniteSets

\* -------------------------------------------------------------------------
\* Bounds of the model
\* -------------------------------------------------------------------------

\* Top-level interceptor calls in one behaviour.
MaxOps == 1

\* Interceptor calls made from inside lifecycle callbacks in one behaviour.
MaxNested == 2

\* The same two bounds for the attribute scenario (SpecAttr).
MaxAttrOps == 4

MaxAttrNested == 1

\* Attribute calls in one behaviour on a connected custom element
\* (SpecCustomAttr).
MaxCustomAttrOps == 3

\* Top-level calls, and calls made by a callback, in the behaviours that
\* disconnect and reconnect nodes (SpecReconnect).
MaxReconnectOps == 2

MaxReconnectNested == 1

\* Top-level calls, and calls made by a callback, in the behaviours that
\* move a connected subtree (SpecMove).
MaxMoveOps == 1

MaxMoveNested == 1

\* Top-level calls, and calls made by a callback, in the behaviours about
\* the innerHTML setter (SpecInner).
MaxInnerOps == 2

MaxInnerNested == 1

\* Top-level calls of the interceptors that introduce cloned or parsed nodes
\* (SpecHtml).
MaxHtmlOps == 1

\* The same two bounds for behaviours that start with a failed element
\* (SpecFailed).
MaxFailOps == 1

MaxFailNested == 1

\* -------------------------------------------------------------------------
\* The node universe
\* -------------------------------------------------------------------------

Null == "null"

Doc == "doc"
Frag == "f"
TextNodes == {"t", "t1"}
\* Elements that exist from the start, and elements created later by
\* cloneNode or by the HTML parser (in creation order).
BaseElems == {"h", "a", "b", "c"}
PoolSeq == <<"n1", "n2">>
PoolElems == {PoolSeq[i] : i \in 1..Len(PoolSeq)}
Elems == BaseElems \cup PoolElems
Nodes == {Doc, Frag} \cup TextNodes \cup Elems

\* nodeType / instanceof tests of the interceptors.
Kind(n) ==
  IF n = Doc THEN "document"
  ELSE IF n = Frag THEN "fragment"
  ELSE IF n \in TextNodes THEN "text"
  ELSE "element"

\* Local names: two names with a definition in the registry (the constructor
\* of "x-bad" throws), one without.
Tags == {"x-ok", "x-bad", "div"}
NotCreated == "none"
\* A third defined name whose constructor changes the tree: it removes the
\* next sibling of the element being constructed.
MutatingTag == "x-mut"
Defined(tag) == tag \in {"x-ok", "x-bad", MutatingTag}
CtorThrows(tag) == tag = "x-bad"

\* Lifecycle state of an element that has just been created natively.
FreshState(tag) == IF Defined(tag) THEN "undefined" ELSE "uncustomized"

AttrNames == {"p", "q", "r"}
AttrValues == {"v"}
Positions == {"beforebegin", "afterbegin", "beforeend", "afterend", "bogus"}

\* -------------------------------------------------------------------------
\* Sequences
\* -------------------------------------------------------------------------

Range(s) == {s[i] : i \in 1..Len(s)}

RECURSIVE Concat(_)
Concat(ss) == IF ss = <<>> THEN <<>> ELSE Head(ss) \o Concat(Tail(ss))

RECURSIVE Without(_, _)
Without(s, x) ==
  IF s = <<>> THEN <<>>
  ELSE IF Head(s) = x THEN Without(Tail(s), x)
  ELSE <<Head(s)>> \o Without(Tail(s), x)

IndexOf(s, x) ==
  LET is == {i \in 1..Len(s) : s[i] = x}
  IN IF is = {} THEN 0 ELSE CHOOSE i \in is : \A j \in is : i <= j

NoDup(s) == \A i, j \in 1..Len(s) : s[i] = s[j] => i = j

Count(s, x) == Cardinality({i \in 1..Len(s) : s[i] = x})

\* s with the sequence ins inserted before position i (i = Len(s)+1: appended)
InsertSeqAt(s, i, ins) == SubSeq(s, 1, i - 1) \o ins \o SubSeq(s, i, Len(s))

\* -------------------------------------------------------------------------
\* The native tree (parent/child/sibling navigation and unpatched mutation)
\* ch is the children map: node -> sequence of child nodes
\* -------------------------------------------------------------------------

IsChild(ch, p, n) == \E i \in 1..Len(ch[p]) : ch[p][i] = n

ParentOf(ch, n) ==
  LET ps == {p \in Nodes : IsChild(ch, p, n)}
  IN IF ps = {} THEN Null ELSE CHOOSE p \in ps : TRUE

RECURSIVE RootOf(_, _)
RootOf(ch, n) ==
  LET p == ParentOf(ch, n) IN IF p = Null THEN n ELSE RootOf(ch, p)

RECURSIVE InclusiveAncestors(_, _)
InclusiveAncestors(ch, n) ==
  IF n = Null THEN {} ELSE {n} \cup InclusiveAncestors(ch, ParentOf(ch, n))

FirstChild(ch, n) == IF ch[n] = <<>> THEN Null ELSE ch[n][1]
LastChild(ch, n) == IF ch[n] = <<>> THEN Null ELSE ch[n][Len(ch[n])]

NextSibling(ch, n) ==
  LET p == ParentOf(ch, n) IN
  IF p = Null THEN Null
  ELSE LET i == IndexOf(ch[p], n) IN
       IF i < Len(ch[p]) THEN ch[p][i + 1] ELSE Null

PreviousSibling(ch, n) ==
  LET p == ParentOf(ch, n) IN
  IF p = Null THEN Null
  ELSE LET i == IndexOf(ch[p], n) IN
       IF i > 1 THEN ch[p][i - 1] ELSE Null

\* n taken out of its parent's child list.
Detach(ch, n) ==
  LET p == ParentOf(ch, n) IN
  IF p = Null THEN ch ELSE [ch EXCEPT ![p] = Without(@, n)]

\* The nodes a pre-insertion of n puts into the parent: the children of a
\* DocumentFragment, or n itself.
InsertedNodes(ch, n) == IF Kind(n) = "fragment" THEN ch[n] ELSE <<n>>

\* DOM "ensure pre-insertion validity", for the constraints on a Document
\* parent: no Text child, at most one element child.  except is the child
\* being replaced (Null for an insertion).
DocumentAccepts(ch, n, except) ==
  LET ins == InsertedNodes(ch, n)
      elemsIn == {x \in Range(ins) : Kind(x) = "element"}
      elemsThere == {x \in Range(ch[Doc]) : Kind(x) = "element" /\ x # except}
  IN /\ \A x \in Range(ins) : Kind(x) # "text"
     /\ Cardinality(elemsIn) <= 1
     /\ elemsIn # {} => elemsThere = {}

\* Native insertBefore/appendChild raise HierarchyRequestError or
\* NotFoundError unless this holds.
InsertValid(ch, p, n, ref) ==
  /\ Kind(p) \in {"document", "fragment", "element"}
  /\ n \notin InclusiveAncestors(ch, p)
  /\ ref = Null \/ ParentOf(ch, ref) = p
  /\ Kind(n) \in {"fragment", "element", "text"}
  /\ p = Doc => DocumentAccepts(ch, n, Null)

\* Native insertBefore (ref = Null: appendChild) once valid.
NativeInsert(ch, p, n, ref) ==
  LET r == IF ref = n THEN NextSibling(ch, n) ELSE ref
      ins == InsertedNodes(ch, n)
      ch1 == IF Kind(n) = "fragment" THEN [ch EXCEPT ![n] = <<>>] ELSE Detach(ch, n)
      at == IF r = Null THEN Len(ch1[p]) + 1 ELSE IndexOf(ch1[p], r)
  IN [ch1 EXCEPT ![p] = InsertSeqAt(@, at, ins)]

\* Native replaceChild raises unless this holds.
ReplaceValid(ch, p, n, old) ==
  /\ Kind(p) \in {"document", "fragment", "element"}
  /\ n \notin InclusiveAncestors(ch, p)
  /\ old # Null /\ ParentOf(ch, old) = p
  /\ Kind(n) \in {"fragment", "element", "text"}
  /\ p = Doc => DocumentAccepts(ch, n, old)

\* Native replaceChild once valid: old is removed and n inserted in its place.
NativeReplace(ch, p, n, old) ==
  LET nx == NextSibling(ch, old)
      r == IF nx = n THEN NextSibling(ch, n) ELSE nx
      ins == InsertedNodes(ch, n)
      ch1 == Detach(ch, old)
      ch2 == IF Kind(n) = "fragment" THEN [ch1 EXCEPT ![n] = <<>>] ELSE Detach(ch1, n)
      at == IF r = Null THEN Len(ch2[p]) + 1 ELSE IndexOf(ch2[p], r)
  IN [ch2 EXCEPT ![p] = InsertSeqAt(@, at, ins)]

\* Native removeChild raises NotFoundError unless the node is a child.
RemoveValid(ch, p, n) == n # Null /\ ParentOf(ch, n) = p

\* Native outerHTML setter: a no-op without a parent, an error
\* (NoModificationAllowedError) when the parent is the Document.
OuterHTMLValid(ch, n) == ParentOf(ch, n) # Doc

\* -------------------------------------------------------------------------
\* Utilities (modelled from the design document)
\* -------------------------------------------------------------------------

\* Utilities.isConnected: the node's root ancestor is the document.
isConnected(ch, n) == RootOf(ch, n) = Doc

\* Utilities.walkDeepDescendantElements: the elements of the subtrees rooted
\* at the nodes of todo, in document order (text nodes are skipped, the
\* walk goes on past them).
RECURSIVE WalkList(_, _)
WalkList(ch, todo) ==
  IF todo = <<>> THEN <<>>
  ELSE LET n == Head(todo) IN
       (IF Kind(n) = "element" THEN <<n>> ELSE <<>>)
         \o WalkList(ch, ch[n] \o Tail(todo))

walkDeepDescendantElements(ch, root) == WalkList(ch, <<root>>)

\* -------------------------------------------------------------------------
\* The state an interceptor call works on
\*   ch, ln, ce, bl, at, stack, drain: the program's state
\*   threw, native: how the call ended (exception to the caller; native
\*     mutation performed)
\*   gen, enq, errs, att, cf, dC, cC, engD, pat: what the call did, for
\*     the properties (reactions requested / appended to a frame, reports
\*     to the top-level error sink, upgrade attempts, failed constructions,
\*     elements covered by disconnectTree / connectTree walks, stack depths
\*     at the calls into the core, roots handed to the patch functions)
\* -------------------------------------------------------------------------

Reaction(k, n) == [k |-> k, n |-> n, a |-> "-", o |-> "-", v |-> "-", ns |-> "-"]

AttrReaction(n, name, old, new, ns) ==
  [k |-> "attributeChanged", n |-> n, a |-> name, o |-> old, v |-> new, ns |-> ns]

RECURSIVE FoldLeft(_, _, _)
FoldLeft(Op(_, _), S, seq) ==
  IF seq = <<>> THEN S ELSE FoldLeft(Op, Op(S, Head(seq)), Tail(seq))

\* A call into the core at the current stack depth.
EngineCall(S) == [S EXCEPT !.engD = @ \cup {Len(S.stack)}]

\* -------------------------------------------------------------------------
\* Reaction queue stack (design document 4.2, 5)
\* -------------------------------------------------------------------------

\* pushFrame: a new empty frame on the stack.
pushCEReactionsQueue(S) == [S EXCEPT !.stack = Append(@, <<>>)]

\* popFrame: the top frame is removed.  With frames left below, its
\* reactions are appended to the new top frame.  With none left, its
\* reactions are the ones to invoke: they go, in order, to the end of the
\* frame being drained (empty at a top-level call; inside a callback, the
\* frame whose drain invoked the callback, which takes them in a later
\* pass).
popCEReactionsQueue(S) ==
  LET d == Len(S.stack)
      top == S.stack[d]
      rest == SubSeq(S.stack, 1, d - 1)
  IN IF rest # <<>>
     THEN [S EXCEPT !.stack = [rest EXCEPT ![d - 1] = @ \o top]]
     ELSE [S EXCEPT !.stack = <<>>, !.drain = @ \o top]

\* enqueue: appended to the current top frame; with an empty stack the
\* reaction is dropped and reported.
enqueue(S, r) ==
  IF S.stack = <<>>
  THEN [S EXCEPT !.gen = Append(@, r), !.errs = @ + 1]
  ELSE [S EXCEPT !.gen = Append(@, r), !.enq = Append(@, r),
                 !.stack[Len(S.stack)] = Append(@, r)]

\* -------------------------------------------------------------------------
\* Lifecycle state machine and upgrade (design document 4.1, 4.5)
\* -------------------------------------------------------------------------

\* Upgrade attempt: a no-op for custom and failed elements and for names
\* without a definition.  The constructor runs synchronously; when it
\* throws the element is failed, the error reported and the backlog
\* dropped; otherwise the element is custom, its backlog is replayed in
\* order and, if it is connected now, a connected reaction follows.
RECURSIVE removeChild(_, _, _)

\* What the constructor of the element does to the tree: nothing, or (for
\* MutatingTag) a removeChild call on the next sibling.
ConstructorEffect(S, e) ==
  IF S.ln[e] = MutatingTag /\ NextSibling(S.ch, e) # Null
  THEN removeChild(S, ParentOf(S.ch, e), NextSibling(S.ch, e))
  ELSE S

upgradeElement(S, e) ==
  IF S.ce[e] \in {"custom", "failed"} \/ ~Defined(S.ln[e]) THEN S
  ELSE IF CtorThrows(S.ln[e])
  THEN [S EXCEPT !.ce[e] = "failed", !.bl[e] = <<>>, !.errs = @ + 1,
                 !.att = Append(@, e), !.cf = @ \cup {e}]
  ELSE LET S1 == ConstructorEffect([S EXCEPT !.ce[e] = "custom", !.bl[e] = <<>>,
                                             !.att = Append(@, e)], e)
           S2 == FoldLeft(enqueue, S1, S.bl[e])
       IN IF isConnected(S2.ch, e) THEN enqueue(S2, Reaction("connected", e)) ELSE S2

\* patchTree: patches only.
patchTree(S, root) ==
  [EngineCall(S) EXCEPT !.pat = Append(@, <<"patchTree", root, Len(S.gen)>>)]

\* patchAndUpgradeTree: patches, then -- only if the owning document is
\* registry-associated -- attempts the upgrade of every element of the
\* subtree.
patchAndUpgradeTree(S, root) ==
  LET S1 == [EngineCall(S) EXCEPT !.pat = Append(@, <<"patchAndUpgradeTree", root, Len(S.gen)>>)]
  IN IF S.reg
     THEN FoldLeft(upgradeElement, S1, walkDeepDescendantElements(S.ch, root))
     ELSE S1

\* -------------------------------------------------------------------------
\* Connect / disconnect engine (design document 4.4)
\* -------------------------------------------------------------------------

ConnectOne(S, e) ==
  IF S.ce[e] = "custom" THEN enqueue(S, Reaction("connected", e))
  ELSE IF S.ce[e] = "failed" THEN S
  ELSE upgradeElement(S, e)

connectTree(S, root) ==
  LET walk == walkDeepDescendantElements(S.ch, root)
  IN FoldLeft(ConnectOne, [EngineCall(S) EXCEPT !.cC = @ \o walk], walk)

DisconnectOne(S, e) ==
  IF S.ce[e] = "custom" THEN enqueue(S, Reaction("disconnected", e)) ELSE S

disconnectTree(S, root) ==
  LET walk == walkDeepDescendantElements(S.ch, root)
  IN FoldLeft(DisconnectOne, [EngineCall(S) EXCEPT !.dC = @ \o walk], walk)

\* -------------------------------------------------------------------------
\* Callback dispatch (design document 4.6)
\* -------------------------------------------------------------------------

\* attributeChanged: enqueued for a custom element, recorded in the backlog
\* of an uncustomized/undefined one, discarded for a failed one.
attributeChangedCallback(S, e, name, old, new, ns) ==
  LET S1 == EngineCall(S)
      r == AttrReaction(e, name, old, new, ns)
  IN IF S.ce[e] = "custom" THEN enqueue(S1, r)
     ELSE IF S.ce[e] = "failed" THEN S1
     ELSE [S1 EXCEPT !.bl[e] = Append(@, r)]

\* disconnectedCallback: a disconnected reaction for the element; the
\* caller checks the state.
disconnectedCallback(S, e) == enqueue(EngineCall(S), Reaction("disconnected", e))

\* -------------------------------------------------------------------------
\* How a call ends
\* -------------------------------------------------------------------------

\* An exception leaves the handler: nothing after the raising statement runs.
Raise(S) == [S EXCEPT !.threw = TRUE]

\* The native primitive returned, leaving the tree ch2.
NativeDone(S, ch2) ==
  [S EXCEPT !.ch = ch2, !.native = TRUE,
            !.natAt = IF S.native THEN @ ELSE Len(S.gen)]

\* -------------------------------------------------------------------------
\* Patch/Node.js
\* -------------------------------------------------------------------------

insertBefore(S, this, node, refNode) ==
  LET S1 == pushCEReactionsQueue(S) IN
  IF Kind(node) = "fragment"
  THEN LET S2 == IF isConnected(S1.ch, this) THEN connectTree(S1, node) ELSE S1
       IN IF ~InsertValid(S2.ch, this, node, refNode) THEN Raise(S2)
          ELSE popCEReactionsQueue(
                 NativeDone(S2, NativeInsert(S2.ch, this, node, refNode)))
  ELSE LET nodeIsElement == Kind(node) = "element"
           S2 == IF nodeIsElement /\ isConnected(S1.ch, node)
                 THEN disconnectTree(S1, node) ELSE S1
       IN IF ~InsertValid(S2.ch, this, node, refNode) THEN Raise(S2)
          ELSE LET S3 == NativeDone(S2, NativeInsert(S2.ch, this, node, refNode))
                   S4 == IF nodeIsElement /\ isConnected(S3.ch, node)
                         THEN connectTree(S3, node) ELSE S3
               IN popCEReactionsQueue(S4)

\* appendChild without the connectTree call that follows the native call.
appendChildUnconnected(S, this, node) ==
  LET S1 == pushCEReactionsQueue(S) IN
  IF Kind(node) = "fragment"
  THEN LET S2 == IF isConnected(S1.ch, this) THEN connectTree(S1, node) ELSE S1
       IN IF ~InsertValid(S2.ch, this, node, Null) THEN Raise(S2)
          ELSE popCEReactionsQueue(
                 NativeDone(S2, NativeInsert(S2.ch, this, node, Null)))
  ELSE LET S2 == IF Kind(node) = "element" /\ isConnected(S1.ch, node)
                 THEN disconnectTree(S1, node) ELSE S1
       IN IF ~InsertValid(S2.ch, this, node, Null) THEN Raise(S2)
          ELSE popCEReactionsQueue(
                 NativeDone(S2, NativeInsert(S2.ch, this, node, Null)))

appendChild(S, this, node) ==
  LET S1 == pushCEReactionsQueue(S) IN
  IF Kind(node) = "fragment"
  THEN LET S2 == IF isConnected(S1.ch, this) THEN connectTree(S1, node) ELSE S1
       IN IF ~InsertValid(S2.ch, this, node, Null) THEN Raise(S2)
          ELSE popCEReactionsQueue(
                 NativeDone(S2, NativeInsert(S2.ch, this, node, Null)))
  ELSE LET nodeIsElement == Kind(node) = "element"
           S2 == IF nodeIsElement /\ isConnected(S1.ch, node)
                 THEN disconnectTree(S1, node) ELSE S1
       IN IF ~InsertValid(S2.ch, this, node, Null) THEN Raise(S2)
          ELSE LET S3 == NativeDone(S2, NativeInsert(S2.ch, this, node, Null))
                   S4 == IF nodeIsElement /\ isConnected(S3.ch, node)
                         THEN connectTree(S3, node) ELSE S3
               IN popCEReactionsQueue(S4)

\* The pool elements not created yet, in creation order.
FreePool(ln) ==
  LET RECURSIVE free(_)
      free(s) == IF s = <<>> THEN <<>>
                 ELSE (IF ln[Head(s)] = NotCreated THEN <<Head(s)>> ELSE <<>>)
                        \o free(Tail(s))
  IN free(PoolSeq)

\* Native cloneNode of an element: the copies are new elements with the same
\* local names and attributes, not yet in any lifecycle state of their own.
CloneSources(ch, this, deep) ==
  IF deep THEN walkDeepDescendantElements(ch, this) ELSE <<this>>

NativeClone(S, this, deep) ==
  LET src == CloneSources(S.ch, this, deep)
      new == SubSeq(FreePool(S.ln), 1, Len(src))
      copyOf(x) == new[IndexOf(src, x)]
      isNew(x) == x \in Range(new)
      origOf(x) == src[IndexOf(new, x)]
  IN [S EXCEPT
        !.ch = [x \in Nodes |->
                  IF isNew(x) /\ deep
                  THEN [i \in 1..Len(S.ch[origOf(x)]) |-> copyOf(S.ch[origOf(x)][i])]
                  ELSE S.ch[x]],
        !.ln = [x \in Nodes |-> IF isNew(x) THEN S.ln[origOf(x)] ELSE S.ln[x]],
        !.at = [x \in Elems |-> IF isNew(x) THEN S.at[origOf(x)] ELSE S.at[x]],
        !.ce = [x \in Elems |-> IF isNew(x) THEN FreshState(S.ln[origOf(x)]) ELSE S.ce[x]],
        !.native = TRUE]

cloneNode(S, this, deep, flags) ==
  LET S1 == pushCEReactionsQueue(S)
      S2 == NativeClone(S1, this, deep)
      clone == FreePool(S.ln)[1]
      S3 == IF "__CE_registry" \notin flags
            THEN patchTree(S2, clone)
            ELSE patchAndUpgradeTree(S2, clone)
  IN popCEReactionsQueue(S3)

removeChild(S, this, node) ==
  LET S1 == pushCEReactionsQueue(S)
      S2 == IF Kind(node) = "element" /\ isConnected(S1.ch, node)
            THEN disconnectTree(S1, node) ELSE S1
  IN IF ~RemoveValid(S2.ch, this, node) THEN Raise(S2)
     ELSE popCEReactionsQueue(NativeDone(S2, Detach(S2.ch, node)))

replaceChild(S, this, nodeToInsert, nodeToRemove) ==
  LET S1 == pushCEReactionsQueue(S)
      thisIsConnected == isConnected(S1.ch, this)
  IN
  IF Kind(nodeToInsert) = "fragment"
  THEN LET S2 == IF thisIsConnected
                 THEN connectTree(disconnectTree(S1, nodeToRemove), nodeToInsert)
                 ELSE S1
       IN IF ~ReplaceValid(S2.ch, this, nodeToInsert, nodeToRemove) THEN Raise(S2)
          ELSE popCEReactionsQueue(
                 NativeDone(S2, NativeReplace(S2.ch, this, nodeToInsert, nodeToRemove)))
  ELSE LET S2 == IF thisIsConnected THEN disconnectTree(S1, nodeToRemove) ELSE S1
           S3 == IF Kind(nodeToInsert) = "element" /\ isConnected(S2.ch, nodeToInsert)
                 THEN disconnectTree(S2, nodeToInsert) ELSE S2
           S4 == IF Kind(nodeToInsert) = "element" /\ thisIsConnected
                 THEN connectTree(S3, nodeToInsert) ELSE S3
       IN IF ~ReplaceValid(S4.ch, this, nodeToInsert, nodeToRemove) THEN Raise(S4)
          ELSE popCEReactionsQueue(
                 NativeDone(S4, NativeReplace(S4.ch, this, nodeToInsert, nodeToRemove)))

\* Native textContent setter of a non-text node: a Document ignores it;
\* otherwise all children go and, unless the value is empty, one new text
\* node ("t1") comes.
NativeSetTextContent(S, this, value) ==
  IF Kind(this) = "document" THEN [S EXCEPT !.native = TRUE]
  ELSE IF value = ""
  THEN NativeDone(S, [S.ch EXCEPT ![this] = <<>>])
  ELSE [S EXCEPT !.ch = [Detach(S.ch, "t1") EXCEPT ![this] = <<"t1">>],
                 !.ln["t1"] = "#text",
                 !.native = TRUE]

textContentSetter(S, this, assignedValue) ==
  LET S1 == pushCEReactionsQueue(S) IN
  IF Kind(this) = "text"
  THEN popCEReactionsQueue([S1 EXCEPT !.native = TRUE])
  ELSE LET S2 == IF isConnected(S1.ch, this)
                 THEN FoldLeft(disconnectTree, S1, S1.ch[this])
                 ELSE S1
       IN popCEReactionsQueue(NativeSetTextContent(S2, this, assignedValue))

\* -------------------------------------------------------------------------
\* Patch/Element.js
\* -------------------------------------------------------------------------

\* The native attribute store of one element: a list of <<namespace, name,
\* value>> in the order the attributes were added.
AttrIndex(al, name) ==
  IF \E i \in 1..Len(al) : al[i][2] = name
  THEN CHOOSE i \in 1..Len(al) : al[i][2] = name /\ \A j \in 1..(i - 1) : al[j][2] # name
  ELSE 0

AttrIndexNS(al, ns, name) ==
  IF \E i \in 1..Len(al) : al[i][1] = ns /\ al[i][2] = name
  THEN CHOOSE i \in 1..Len(al) : al[i][1] = ns /\ al[i][2] = name
  ELSE 0

Native_getAttribute(al, name) ==
  IF AttrIndex(al, name) = 0 THEN Null ELSE al[AttrIndex(al, name)][3]

Native_getAttributeNS(al, ns, name) ==
  IF AttrIndexNS(al, ns, name) = 0 THEN Null ELSE al[AttrIndexNS(al, ns, name)][3]

\* The store keeps strings: a value that is no string is converted ("#7"
\* stands for the number 7, stored as the string "7").
ToDOMString(value) == IF value = "#7" THEN "7" ELSE value

Native_setAttribute(al, name, value) ==
  IF AttrIndex(al, name) = 0 THEN Append(al, <<Null, name, ToDOMString(value)>>)
  ELSE [al EXCEPT ![AttrIndex(al, name)][3] = ToDOMString(value)]

Native_setAttributeNS(al, ns, name, value) ==
  IF AttrIndexNS(al, ns, name) = 0 THEN Append(al, <<ns, name, ToDOMString(value)>>)
  ELSE [al EXCEPT ![AttrIndexNS(al, ns, name)][3] = ToDOMString(value)]

RemoveAt(s, i) == IF i = 0 THEN s ELSE SubSeq(s, 1, i - 1) \o SubSeq(s, i + 1, Len(s))

Native_removeAttribute(al, name) == RemoveAt(al, AttrIndex(al, name))

Native_removeAttributeNS(al, ns, name) == RemoveAt(al, AttrIndexNS(al, ns, name))

\* setAttribute dispatching the requested value instead of the one read back.
setAttributeRequested(S, this, name, newValue) ==
  IF S.ce[this] # "custom"
  THEN [S EXCEPT !.at[this] = Native_setAttribute(@, name, newValue), !.native = TRUE]
  ELSE LET oldValue == Native_getAttribute(S.at[this], name)
           S1 == [S EXCEPT !.at[this] = Native_setAttribute(@, name, newValue),
                           !.native = TRUE]
       IN attributeChangedCallback(S1, this, name, oldValue, newValue, Null)

setAttribute(S, this, name, newValue) ==
  IF S.ce[this] # "custom"
  THEN [S EXCEPT !.at[this] = Native_setAttribute(@, name, newValue), !.native = TRUE]
  ELSE LET oldValue == Native_getAttribute(S.at[this], name)
           S1 == [S EXCEPT !.at[this] = Native_setAttribute(@, name, newValue),
                           !.native = TRUE]
           readBack == Native_getAttribute(S1.at[this], name)
       IN attributeChangedCallback(S1, this, name, oldValue, readBack, Null)

setAttributeNS(S, this, namespace, name, newValue) ==
  IF S.ce[this] # "custom"
  THEN [S EXCEPT !.at[this] = Native_setAttributeNS(@, namespace, name, newValue),
                 !.native = TRUE]
  ELSE LET oldValue == Native_getAttributeNS(S.at[this], namespace, name)
           S1 == [S EXCEPT !.at[this] = Native_setAttributeNS(@, namespace, name, newValue),
                           !.native = TRUE]
           readBack == Native_getAttributeNS(S1.at[this], namespace, name)
       IN attributeChangedCallback(S1, this, name, oldValue, readBack, namespace)

removeAttribute(S, this, name) ==
  IF S.ce[this] # "custom"
  THEN [S EXCEPT !.at[this] = Native_removeAttribute(@, name), !.native = TRUE]
  ELSE LET oldValue == Native_getAttribute(S.at[this], name)
           S1 == [S EXCEPT !.at[this] = Native_removeAttribute(@, name), !.native = TRUE]
       IN IF oldValue # Null
          THEN attributeChangedCallback(S1, this, name, oldValue, Null, Null)
          ELSE S1

removeAttributeNS(S, this, namespace, name) ==
  IF S.ce[this] # "custom"
  THEN [S EXCEPT !.at[this] = Native_removeAttributeNS(@, namespace, name),
                 !.native = TRUE]
  ELSE LET oldValue == Native_getAttributeNS(S.at[this], namespace, name)
           S1 == [S EXCEPT !.at[this] = Native_removeAttributeNS(@, namespace, name),
                           !.native = TRUE]
           newValue == Native_getAttributeNS(S1.at[this], namespace, name)
       IN IF oldValue # newValue
          THEN attributeChangedCallback(S1, this, name, oldValue, newValue, namespace)
          ELSE S1

\* The HTML parser: one new element per tag of html, taken from the pool in
\* order, without children or attributes.
ParsedNodes(S, html) == SubSeq(FreePool(S.ln), 1, Len(html))

CreateParsed(S, html) ==
  LET new == ParsedNodes(S, html)
      isNew(x) == x \in Range(new)
  IN [S EXCEPT
        !.ln = [x \in Nodes |-> IF isNew(x) THEN html[IndexOf(new, x)] ELSE S.ln[x]],
        !.ce = [x \in Elems |->
                  IF isNew(x) THEN FreshState(html[IndexOf(new, x)]) ELSE S.ce[x]]]

\* Native innerHTML setter: the children are replaced by the parsed nodes.
Native_innerHTML(S, this, html) ==
  LET S1 == CreateParsed(S, html)
  IN [NativeDone(S1, [S1.ch EXCEPT ![this] = ParsedNodes(S, html)])
        EXCEPT !.ins = ParsedNodes(S, html)]

\* Native outerHTML setter (the element has a parent other than the
\* Document): the element is replaced, in its parent, by the parsed nodes.
Native_outerHTML(S, this, html) ==
  LET S1 == CreateParsed(S, html)
      p == ParentOf(S.ch, this)
      i == IndexOf(S.ch[p], this)
  IN [NativeDone(S1, [S1.ch EXCEPT
        ![p] = InsertSeqAt(RemoveAt(S.ch[p], i), i, ParsedNodes(S, html))])
        EXCEPT !.ins = ParsedNodes(S, html)]

\* patchFunction.call(internals, node): patchTree or patchAndUpgradeTree.
ApplyPatch(S, upgrade, node) ==
  IF upgrade THEN patchAndUpgradeTree(S, node) ELSE patchTree(S, node)

\* removedElements collected without the test that leaves out the receiver.
RemovedElementsInclusive(ch, this) ==
  IF isConnected(ch, this) THEN walkDeepDescendantElements(ch, this) ELSE <<>>

\* The part of patch_HTMLsetter's setter before the native call.
RemovedElements(ch, this) ==
  IF isConnected(ch, this)
  THEN Without(walkDeepDescendantElements(ch, this), this)
  ELSE <<>>

\* The loop body without its test of the element's state.
NotifyRemovedOneUnchecked(S, element) == disconnectedCallback(S, element)

\* The loop over removedElements after the native call.
NotifyRemovedOne(S, element) ==
  IF S.ce[element] = "custom" THEN disconnectedCallback(S, element) ELSE S

NotifyRemoved(S, removedElements) == FoldLeft(NotifyRemovedOne, S, removedElements)

innerHTMLSetter(S, this, htmlString, flags) ==
  LET removedElements == RemovedElements(S.ch, this)
      S1 == Native_innerHTML(S, this, htmlString)
      S2 == NotifyRemoved(S1, removedElements)
  IN ApplyPatch(S2, "__CE_hasRegistry" \in flags, this)

\* The sibling loop of patch_outerHTML's patchCallback.
RECURSIVE PatchSiblings(_, _, _, _)
PatchSiblings(S, upgrade, sibling, nextSibling) ==
  IF sibling = Null \/ sibling = nextSibling THEN S
  ELSE LET S1 == ApplyPatch(S, upgrade, sibling)
       IN PatchSiblings(S1, upgrade, NextSibling(S1.ch, sibling), nextSibling)

outerHTMLSetter(S, this, htmlString, flags) ==
  LET removedElements == RemovedElements(S.ch, this)
      parentNode == ParentOf(S.ch, this)
      previousSibling == PreviousSibling(S.ch, this)
      nextSibling == NextSibling(S.ch, this)
      upgrade == "__CE_hasRegistry" \in flags
  IN
  IF ~OuterHTMLValid(S.ch, this) THEN Raise(S)
  ELSE LET S1 == IF parentNode = Null THEN S ELSE Native_outerHTML(S, this, htmlString)
           S2 == NotifyRemoved(S1, removedElements)
       IN IF parentNode = Null THEN Raise(S2)
          ELSE IF previousSibling = Null /\ nextSibling = Null
          THEN ApplyPatch(S2, upgrade, parentNode)
          ELSE LET first ==
                     IF previousSibling # Null /\ NextSibling(S2.ch, previousSibling) # Null
                     THEN NextSibling(S2.ch, previousSibling)
                     ELSE FirstChild(S2.ch, parentNode)
               IN PatchSiblings(S2, upgrade, first, nextSibling)

\* Native insertAdjacentElement: the parent and reference child of the
\* insertion, Null as parent when the method returns null.
AdjacentParent(ch, this, position) ==
  IF position \in {"beforebegin", "afterend"} THEN ParentOf(ch, this) ELSE this

AdjacentRef(ch, this, position) ==
  IF position = "beforebegin" THEN this
  ELSE IF position = "afterbegin" THEN FirstChild(ch, this)
  ELSE IF position = "beforeend" THEN Null
  ELSE NextSibling(ch, this)

\* nullThrows: whether Utilities.isConnected raises on null (the value the
\* native method returns for an element without a parent).
insertAdjacentElement(S, this, position, element, nullThrows) ==
  LET wasConnected == isConnected(S.ch, element)
      p == AdjacentParent(S.ch, this, position)
      ref == AdjacentRef(S.ch, this, position)
  IN
  IF position = "bogus" THEN Raise(S)
  ELSE IF p = Null
  THEN LET S1 == IF wasConnected THEN disconnectTree(S, element) ELSE S
       IN IF nullThrows THEN Raise(S1) ELSE S1
  ELSE IF ~InsertValid(S.ch, p, element, ref) THEN Raise(S)
  ELSE LET S1 == NativeDone(S, NativeInsert(S.ch, p, element, ref))
           S2 == IF wasConnected THEN disconnectTree(S1, element) ELSE S1
       IN IF isConnected(S2.ch, element) THEN connectTree(S2, element) ELSE S2

\* position.toLowerCase()
ToLowerCase(position) == IF position = "BeforeEnd" THEN "beforeend" ELSE position

\* Native insertAdjacentHTML raises NoModificationAllowedError when the
\* position needs a parent and the element has none or a Document.
AdjacentHTMLValid(ch, this, position) ==
  position \in {"afterbegin", "beforeend"} \/ ParentOf(ch, this) \notin {Null, Doc}

\* Native insertAdjacentHTML: the parsed nodes are inserted at the position.
Native_insertAdjacentHTML(S, this, position, text) ==
  LET S1 == CreateParsed(S, text)
      new == ParsedNodes(S, text)
      p == AdjacentParent(S.ch, this, position)
      ref == AdjacentRef(S.ch, this, position)
      i == IF ref = Null THEN Len(S.ch[p]) + 1 ELSE IndexOf(S.ch[p], ref)
  IN [NativeDone(S1, [S1.ch EXCEPT ![p] = InsertSeqAt(@, i, new)]) EXCEPT !.ins = new]

\* The first loop of upgradeNodesInRange: the siblings from start up to,
\* not including, end; Null is its last entry when the chain ends before
\* end is met.
RECURSIVE SiblingsFrom(_, _, _)
SiblingsFrom(ch, start, end) ==
  IF start = end THEN <<>>
  ELSE IF start = Null THEN <<Null>>
  ELSE <<start>> \o SiblingsFrom(ch, NextSibling(ch, start), end)

\* upgradeNodesInRange walking the sibling chain while it upgrades.
RECURSIVE upgradeNodesInRangeLive(_, _, _)
upgradeNodesInRangeLive(S, start, end) ==
  IF start = end THEN S
  ELSE IF start = Null THEN Raise(S)
  ELSE LET S1 == patchAndUpgradeTree(S, start)
       IN upgradeNodesInRangeLive(S1, NextSibling(S1.ch, start), end)

upgradeNodesInRange(S, start, end) ==
  LET nodes == SiblingsFrom(S.ch, start, end)
  IN IF Null \in Range(nodes) THEN Raise(S)
     ELSE FoldLeft(patchAndUpgradeTree, S, nodes)

\* The else branch without its throw statement.
BadPositionIgnored(S) == S

\* throw new SyntaxError(...)
BadPosition(S) == Raise(S)

\* The range handed to upgradeNodesInRange, as it is in the tree right
\* after the native call.
NoteRange(S, start, end) == [S EXCEPT !.rng = SiblingsFrom(S.ch, start, end)]

insertAdjacentHTML(S, this, position0, text) ==
  LET position == ToLowerCase(position0)
      inserted == Native_insertAdjacentHTML(S, this, position, text)
      Upgrade(start, end) == upgradeNodesInRange(NoteRange(inserted, start, end), start, end)
  IN
  IF position \notin {"beforebegin", "afterbegin", "beforeend", "afterend"}
  THEN BadPosition(S)
  ELSE IF ~AdjacentHTMLValid(S.ch, this, position) THEN Raise(S)
  ELSE IF position = "beforebegin"
  THEN LET marker == PreviousSibling(S.ch, this)
       IN Upgrade(IF marker # Null THEN marker
                  ELSE FirstChild(inserted.ch, ParentOf(inserted.ch, this)), this)
  ELSE IF position = "afterbegin"
  THEN LET marker == FirstChild(S.ch, this)
       IN Upgrade(FirstChild(inserted.ch, this), marker)
  ELSE IF position = "beforeend"
  THEN LET marker == LastChild(S.ch, this)
       IN Upgrade(IF marker # Null THEN marker ELSE FirstChild(inserted.ch, this), Null)
  ELSE LET marker == NextSibling(S.ch, this)
       IN Upgrade(NextSibling(inserted.ch, this), marker)

\* -------------------------------------------------------------------------
\* State
\* -------------------------------------------------------------------------

VARIABLES
  children,   \* the tree: node -> sequence of child nodes
  localName,  \* node -> local name (NotCreated: not created yet)
  ceState,    \* element -> lifecycle state (__CE_state)
  backlog,    \* element -> attribute changes recorded before upgrade
  attrs,      \* element -> native attribute store
  docFlags,   \* the registry properties set on the document
  stack,      \* the reaction queue stack
  drain,      \* the reactions still to invoke of the frame being drained
  fired,      \* callbacks invoked since the last top-level call, in order
  enq,        \* reactions appended to a frame since the last top-level call
  last,       \* what the latest interceptor call did
  opsLeft,    \* top-level interceptor calls still allowed in this behaviour
  nestLeft    \* how many more interceptor calls callbacks may make

vars == <<children, localName, ceState, backlog, attrs, docFlags, stack, drain,
          fired, enq, last, opsLeft, nestLeft>>

NoCallback == Reaction("none", Null)

Created(n) == localName[n] # NotCreated
Live == {n \in Nodes : Created(n)}
LiveElems == {n \in Elems : Created(n)}

\* The document is registry-associated when the installation left either
\* registry property on it.
RegistryAssociated == docFlags # {}

\* The state a top-level call starts from (no drain is in progress).
Start ==
  [ch |-> children, ln |-> localName, ce |-> ceState, bl |-> backlog, at |-> attrs,
   stack |-> stack, drain |-> <<>>, threw |-> FALSE, native |-> FALSE,
   gen |-> <<>>, enq |-> <<>>, errs |-> 0, att |-> <<>>, cf |-> {},
   dC |-> <<>>, cC |-> <<>>, engD |-> {}, pat |-> <<>>, arg |-> <<>>,
   ins |-> <<>>, rng |-> <<>>, natAt |-> 0, reg |-> RegistryAssociated]

\* The same with the arguments of an attribute call noted.
StartAttr(ns, name, value) == [Start EXCEPT !.arg = <<ns, name, value>>]

\* The state a call made by the callback of Head(drain) starts from.
StartNested == [Start EXCEPT !.drain = Tail(drain), !.enq = enq]

ConnectedCustom(ch, ce) == {e \in Elems : ce[e] = "custom" /\ isConnected(ch, e)}

Record(R, name, layer, this, node, cb) ==
  [name |-> name, layer |-> layer, this |-> this, node |-> node, cb |-> cb,
   at |-> IF cb = NoCallback THEN 0 ELSE Len(fired) + 1,
   threw |-> R.threw, native |-> R.native, gen |-> R.gen, errs |-> R.errs,
   att |-> R.att, cf |-> R.cf, dC |-> R.dC, cC |-> R.cC, engD |-> R.engD,
   pat |-> R.pat, depth0 |-> Len(stack), arg |-> R.arg, preAt |-> attrs,
   ins |-> R.ins, rng |-> R.rng, natAt |-> R.natAt,
   preCC |-> ConnectedCustom(children, ceState),
   preConn |-> {e \in Elems : isConnected(children, e)},
   preUndef |-> {e \in Elems : ceState[e] = "undefined"},
   preFailed |-> {e \in Elems : ceState[e] = "failed"}]

Commit(R) ==
  /\ children' = R.ch
  /\ localName' = R.ln
  /\ ceState' = R.ce
  /\ backlog' = R.bl
  /\ attrs' = R.at
  /\ stack' = R.stack
  /\ drain' = R.drain
  /\ enq' = R.enq
  /\ UNCHANGED docFlags

\* A top-level call of an interceptor, with result state R.
\* A top-level call is possible: no drain is in progress.
CanCall == drain = <<>> /\ opsLeft > 0

TopLevel(Result, name, layer, this, node) ==
  /\ CanCall
  /\ \E R \in {Result} :
       /\ Commit(R)
       /\ last' = Record(R, name, layer, this, node, NoCallback)
  /\ fired' = <<>>
  /\ opsLeft' = opsLeft - 1
  /\ UNCHANGED nestLeft

\* -------------------------------------------------------------------------
\* Inputs
\* -------------------------------------------------------------------------

ParentInputs == {n \in Live : Kind(n) # "text"}
NodeInputs == Live \ {Doc}
\* Reference children: none, each child, and one node that is no child.
RefInputs(this) == {Null, this} \cup Range(children[this])
OldInputs(this) == {this} \cup Range(children[this])
HtmlInputs == {<<>>} \cup {<<tg>> : tg \in Tags}

\* The configurations a behaviour starts in.
\*   fresh:     the document holds h (a div) with a text child; the chain
\*              a > b > c of not yet upgraded elements is detached
\*   fragment:  as fresh, after f.appendChild(a)
\*   connected: as fresh, after h.appendChild(a) and the drain of its
\*              reactions: a and c are custom, b is custom or (its
\*              constructor throwing) failed
Configs == {"fresh", "fragment", "connected"}

InitialTree(cfg) ==
  [n \in Nodes |->
     IF n = Doc THEN <<"h">>
     ELSE IF n = "h" THEN (IF cfg = "connected" THEN <<"t", "a">> ELSE <<"t">>)
     ELSE IF n = Frag THEN (IF cfg = "fragment" THEN <<"a">> ELSE <<>>)
     ELSE IF n = "a" THEN <<"b">>
     ELSE IF n = "b" THEN <<"c">>
     ELSE <<>>]

InitialNames(tb) ==
  [n \in Nodes |->
     IF n = Doc THEN "#document"
     ELSE IF n = Frag THEN "#fragment"
     ELSE IF n = "t" THEN "#text"
     ELSE IF n = "h" THEN "div"
     ELSE IF n \in {"a", "c"} THEN "x-ok"
     ELSE IF n = "b" THEN tb
     ELSE NotCreated]

InitialStates(cfg, tb) ==
  [e \in Elems |->
     IF cfg = "connected" /\ e \in {"a", "b", "c"}
     THEN (IF CtorThrows(InitialNames(tb)[e]) THEN "failed" ELSE "custom")
     ELSE FreshState(InitialNames(tb)[e])]

BothFlags == {"__CE_registry", "__CE_hasRegistry"}

InitWith(cfg, tb, flags, budget, nested) ==
  /\ children = InitialTree(cfg)
  /\ localName = InitialNames(tb)
  /\ ceState = InitialStates(cfg, tb)
  /\ backlog = [e \in Elems |-> <<>>]
  /\ attrs = [e \in Elems |-> <<>>]
  /\ docFlags = flags
  /\ stack = <<>>
  /\ drain = <<>>
  /\ fired = <<>>
  /\ enq = <<>>
  /\ last = [name |-> "none", layer |-> "none", this |-> Null, node |-> Null,
             cb |-> NoCallback, at |-> 0, threw |-> FALSE, native |-> FALSE,
             gen |-> <<>>, errs |-> 0, att |-> <<>>, cf |-> {}, dC |-> <<>>,
             cC |-> <<>>, engD |-> {}, pat |-> <<>>, depth0 |-> 0,
             arg |-> <<>>, preAt |-> [e \in Elems |-> <<>>],
             ins |-> <<>>, rng |-> <<>>, natAt |-> 0,
             preCC |-> {}, preConn |-> {}, preUndef |-> {}, preFailed |-> {}]
  /\ opsLeft = budget
  /\ nestLeft = nested

Init ==
  \E cfg \in Configs, tb \in {"x-ok", "x-bad"},
     flags \in {BothFlags, {"__CE_hasRegistry"}} :
    InitWith(cfg, tb, flags, MaxOps, MaxNested)

\* -------------------------------------------------------------------------
\* Actions: one per interceptor, and the drain of the outermost frame
\* -------------------------------------------------------------------------

InsertBefore(this, node, refNode) ==
  TopLevel(insertBefore(Start, this, node, refNode), "insertBefore", "Node", this, node)

AppendChild(this, node) ==
  TopLevel(appendChild(Start, this, node), "appendChild", "Node", this, node)

CloneNode(this, deep) ==
  /\ CanCall
  /\ Len(FreePool(localName)) >= Len(CloneSources(children, this, deep))
  /\ deep => \A x \in Range(CloneSources(children, this, deep)) :
               \A y \in Range(children[x]) : Kind(y) = "element"
  /\ TopLevel(cloneNode(Start, this, deep, docFlags), "cloneNode", "Node", this,
              FreePool(localName)[1])

RemoveChild(this, node) ==
  TopLevel(removeChild(Start, this, node), "removeChild", "Node", this, node)

ReplaceChild(this, nodeToInsert, nodeToRemove) ==
  TopLevel(replaceChild(Start, this, nodeToInsert, nodeToRemove),
           "replaceChild", "Node", this, nodeToInsert)

SetTextContent(this, value) ==
  /\ CanCall
  /\ value # "" => ~Created("t1") /\ Kind(this) # "text"
  /\ TopLevel(textContentSetter(Start, this, value), "textContent", "Node", this, Null)

SetAttribute(this, name, value) ==
  TopLevel(setAttribute(StartAttr(Null, name, value), this, name, value), "setAttribute", "Element", this, Null)

SetAttributeNS(this, ns, name, value) ==
  TopLevel(setAttributeNS(StartAttr(ns, name, value), this, ns, name, value),
           "setAttributeNS", "Element", this, Null)

RemoveAttribute(this, name) ==
  TopLevel(removeAttribute(StartAttr(Null, name, Null), this, name), "removeAttribute", "Element", this, Null)

RemoveAttributeNS(this, ns, name) ==
  TopLevel(removeAttributeNS(StartAttr(ns, name, Null), this, ns, name),
           "removeAttributeNS", "Element", this, Null)

SetInnerHTML(this, html) ==
  /\ CanCall
  /\ Len(FreePool(localName)) >= Len(html)
  /\ TopLevel(innerHTMLSetter(Start, this, html, docFlags),
              "innerHTML", "Element", this, Null)

SetOuterHTML(this, html) ==
  /\ CanCall
  /\ Len(FreePool(localName)) >= Len(html)
  /\ TopLevel(outerHTMLSetter(Start, this, html, docFlags),
              "outerHTML", "Element", this, Null)

InsertAdjacentElement(this, position, element, nullThrows) ==
  /\ CanCall
  /\ nullThrows => AdjacentParent(children, this, position) = Null
  /\ TopLevel(insertAdjacentElement(Start, this, position, element, nullThrows),
              "insertAdjacentElement", "Element", this, element)

InsertAdjacentHTML(this, position, text) ==
  /\ CanCall
  /\ Len(FreePool(localName)) >= Len(text)
  /\ TopLevel(insertAdjacentHTML([Start EXCEPT !.arg = <<position, text>>],
                                 this, position, text),
              "insertAdjacentHTML", "Element", this, Null)

\* The drain loop invokes the next reaction's callback.  The callback
\* returns at once, or first calls removeChild: on the parent of its own
\* element (removing itself), or on its own element with itself as argument
\* (which is no child: the native call raises).
CallbackReturns ==
  /\ drain # <<>>
  /\ drain' = Tail(drain)
  /\ fired' = Append(fired, Head(drain))
  /\ UNCHANGED <<children, localName, ceState, backlog, attrs, docFlags, stack,
                 enq, last, opsLeft, nestLeft>>

CallbackRemoves(this, node) ==
  /\ drain # <<>>
  /\ nestLeft > 0
  /\ node = Head(drain).n
  /\ this \in {node, ParentOf(children, node)} \ {Null}
  /\ \E R \in {removeChild(StartNested, this, node)} :
       /\ Commit(R)
       /\ last' = Record(R, "removeChild", "Node", this, node, Head(drain))
  /\ fired' = Append(fired, Head(drain))
  /\ nestLeft' = nestLeft - 1
  /\ UNCHANGED opsLeft

DrainStep ==
  \/ CallbackReturns
  \/ \E this, node \in Live : CallbackRemoves(this, node)

Next ==
  \/ DrainStep
  \/ \E this \in ParentInputs, node \in NodeInputs :
       \E refNode \in RefInputs(this) : InsertBefore(this, node, refNode)
  \/ \E this \in ParentInputs, node \in NodeInputs : AppendChild(this, node)
  \/ \E this \in LiveElems, deep \in BOOLEAN : CloneNode(this, deep)
  \/ \E this \in ParentInputs, node \in NodeInputs : RemoveChild(this, node)
  \/ \E this \in ParentInputs, node \in NodeInputs :
       \E old \in OldInputs(this) : ReplaceChild(this, node, old)
  \/ \E this \in Live, value \in {"", "x"} : SetTextContent(this, value)
  \/ \E this \in LiveElems : SetAttribute(this, "p", "v")
  \/ \E this \in LiveElems : SetAttributeNS(this, "ns", "p", "v")
  \/ \E this \in LiveElems : RemoveAttribute(this, "p")
  \/ \E this \in LiveElems : RemoveAttributeNS(this, "ns", "p")
  \/ \E this \in LiveElems, html \in HtmlInputs : SetInnerHTML(this, html)
  \/ \E this \in LiveElems, html \in HtmlInputs : SetOuterHTML(this, html)
  \/ \E this, element \in LiveElems, position \in Positions, nullThrows \in BOOLEAN :
       InsertAdjacentElement(this, position, element, nullThrows)

Spec == Init /\ [][Next]_vars

\* The attribute scenario: attributes are set on the detached, not yet
\* upgraded element a, which is then moved into the connected element h.
InitAttr == InitWith("fresh", "x-ok", BothFlags, MaxAttrOps, MaxAttrNested)

NextAttr ==
  \/ DrainStep
  \/ \E name \in AttrNames : SetAttribute("a", name, "v")
  \/ AppendChild("h", "a")
  \/ \E refNode \in {Null, "t"} : InsertBefore("h", "a", refNode)

SpecAttr == InitAttr /\ [][NextAttr]_vars

\* Behaviours that start with the failed element b connected, between the
\* custom elements a and c.
InitFailed == InitWith("connected", "x-bad", BothFlags, MaxFailOps, MaxFailNested)

\* The operations the property about failed elements ranges over.
NextFailed ==
  \/ DrainStep
  \/ \E this \in ParentInputs, node \in NodeInputs :
       \E refNode \in RefInputs(this) : InsertBefore(this, node, refNode)
  \/ \E this \in ParentInputs, node \in NodeInputs : AppendChild(this, node)
  \/ \E this \in ParentInputs, node \in NodeInputs : RemoveChild(this, node)
  \/ \E this \in ParentInputs, node \in NodeInputs :
       \E old \in OldInputs(this) : ReplaceChild(this, node, old)
  \/ \E this \in Live, value \in {"", "x"} : SetTextContent(this, value)
  \/ \E this \in LiveElems : SetAttribute(this, "p", "v")
  \/ \E this \in LiveElems : SetAttributeNS(this, "ns", "p", "v")
  \/ \E this \in LiveElems : RemoveAttribute(this, "p")
  \/ \E this \in LiveElems : RemoveAttributeNS(this, "ns", "p")
  \/ \E this \in LiveElems, html \in HtmlInputs : SetInnerHTML(this, html)
  \/ \E this \in LiveElems, html \in HtmlInputs : SetOuterHTML(this, html)
  \/ \E this, element \in LiveElems, position \in Positions, nullThrows \in BOOLEAN :
       InsertAdjacentElement(this, position, element, nullThrows)

SpecFailed == InitFailed /\ [][NextFailed]_vars

\* Attribute calls on the connected custom element a and on h, which is
\* not custom.
InitCustomAttr == InitWith("connected", "x-ok", BothFlags, MaxCustomAttrOps, 0)

AttrTargets == {"a", "h"}

NextCustomAttr ==
  \/ \E this \in AttrTargets, value \in {"v", "#7"} : SetAttribute(this, "p", value)
  \/ \E this \in AttrTargets, value \in {"v", "#7"} : SetAttributeNS(this, "ns", "p", value)
  \/ \E this \in AttrTargets : RemoveAttribute(this, "p")
  \/ \E this \in AttrTargets : RemoveAttributeNS(this, "ns", "p")

SpecCustomAttr == InitCustomAttr /\ [][NextCustomAttr]_vars

\* Disconnecting and reconnecting: removeChild, appendChild and insertBefore
\* on the connected tree doc > h > (t, a > b > c), where h is a div without
\* definition and a, b, c are custom.
InitReconnect ==
  InitWith("connected", "x-ok", BothFlags, MaxReconnectOps, MaxReconnectNested)

ReconnectParents == {Doc, "h", Frag}
ReconnectNodes == {"h", "a", Frag}

NextReconnect ==
  \/ DrainStep
  \/ \E this \in ReconnectParents, node \in ReconnectNodes : RemoveChild(this, node)
  \/ \E this \in ReconnectParents, node \in ReconnectNodes : AppendChild(this, node)
  \/ \E this \in ReconnectParents, node \in ReconnectNodes :
       \E refNode \in RefInputs(this) : InsertBefore(this, node, refNode)

SpecReconnect == InitReconnect /\ [][NextReconnect]_vars

\* Moves inside the connected tree doc > h > (t, a > b > c), a, b and c
\* custom: the subtree of a or of b is inserted at another place below h
\* or a.
InitMove == InitWith("connected", "x-ok", BothFlags, MaxMoveOps, MaxMoveNested)

MoveTargets == {"h", "a"}
MovedNodes == {"a", "b"}

NextMove ==
  \/ DrainStep
  \/ \E this \in MoveTargets, node \in MovedNodes : AppendChild(this, node)
  \/ \E this \in MoveTargets, node \in MovedNodes :
       \E refNode \in RefInputs(this) : InsertBefore(this, node, refNode)
  \/ \E this \in MoveTargets, element \in MovedNodes, position \in Positions :
       InsertAdjacentElement(this, position, element, FALSE)

SpecMove == InitMove /\ [][NextMove]_vars

\* The innerHTML setter on connected and, after a removeChild, disconnected
\* elements; b is custom or failed.
InitInner ==
  \E tb \in {"x-ok", "x-bad"} :
    InitWith("connected", tb, BothFlags, MaxInnerOps, MaxInnerNested)

NextInner ==
  \/ DrainStep
  \/ \E node \in {"a", "b"} :
       /\ ParentOf(children, node) # Null
       /\ RemoveChild(ParentOf(children, node), node)
  \/ \E this \in {"h", "a", "b"}, html \in HtmlInputs : SetInnerHTML(this, html)

SpecInner == InitInner /\ [][NextInner]_vars

\* The interceptors that introduce new nodes (cloneNode, the innerHTML and
\* outerHTML setters, insertAdjacentHTML), in a document without registry
\* and in one with it.  None of them leaves a reaction in the queue: the
\* three Element interceptors open no frame and a clone is never connected.
HtmlConfigs == {<<"fresh", {}>>, <<"fresh", {"__CE_hasRegistry"}>>,
                <<"fresh", BothFlags>>, <<"connected", BothFlags>>}

InitHtml ==
  \E cf \in HtmlConfigs : InitWith(cf[1], "x-ok", cf[2], MaxHtmlOps, 0)

HtmlPositions == Positions \cup {"BeforeEnd"}
TextInputs == {<<>>, <<"x-ok">>, <<"div">>, <<MutatingTag, "x-ok">>}

NextHtml ==
  \/ \E this \in LiveElems, deep \in BOOLEAN : CloneNode(this, deep)
  \/ \E this \in LiveElems, html \in HtmlInputs : SetInnerHTML(this, html)
  \/ \E this \in LiveElems, html \in HtmlInputs : SetOuterHTML(this, html)
  \/ \E this \in LiveElems, position \in HtmlPositions, text \in TextInputs :
       InsertAdjacentHTML(this, position, text)

SpecHtml == InitHtml /\ [][NextHtml]_vars

\* -------------------------------------------------------------------------
\* Properties
\* -------------------------------------------------------------------------

InSeq(x, s) == \E i \in 1..Len(s) : s[i] = x

FiredFor(e) == SelectSeq(fired, LAMBDA r : r.n = e)

Insertions == {"insertBefore", "appendChild", "replaceChild"}

\* Every reaction that is queued or was requested or invoked.
AllReactions ==
  Range(last.gen) \cup Range(drain) \cup Range(fired) \cup Range(enq)
    \cup UNION {Range(stack[i]) : i \in 1..Len(stack)}
    \cup UNION {Range(backlog[e]) : e \in Elems}

\* C1: once a Node-level call and the drain it starts are over, the
\* callbacks invoked are exactly the reactions that were appended to a frame
\* during it, each once and in the order they were appended.
C1_ReactionsInvokedOnceInOrder ==
  (drain = <<>> /\ last.layer = "Node") => fired = enq

\* C2: after a Node-level call, on every exit path, the reaction queue stack
\* is as deep as before the call.
C2_StackDepthRestored ==
  last.layer = "Node" => Len(stack) = last.depth0

\* C3: whenever an Element-level interceptor calls into the core
\* (attributeChangedCallback, disconnectedCallback, connectTree,
\* disconnectTree, patchTree, patchAndUpgradeTree), the reaction queue stack
\* is not empty.
C3_ElementCallsInsideFrame ==
  last.layer = "Element" => \A d \in last.engD : d > 0

\* C4: after three attributes were set on a not yet upgraded element and the
\* element was then moved into the connected document and upgraded, the
\* callbacks invoked for it are the three attribute changes in the order the
\* attributes were set, then one connected notification.
C4_BacklogReplayedOnUpgrade ==
  (/\ drain = <<>>
   /\ last.cb = NoCallback
   /\ last.name \in {"insertBefore", "appendChild"}
   /\ InSeq(last.node, last.att)
   /\ Len(attrs["a"]) = 3
   /\ last.node = "a")
  => FiredFor("a") =
       [i \in 1..3 |-> AttrReaction("a", attrs["a"][i][2], Null, attrs["a"][i][3], Null)]
         \o <<Reaction("connected", "a")>>

\* C5: after the detached chain a > b > c of not yet upgraded elements (with
\* constructors that succeed) was inserted into a connected parent, directly
\* or as the content of the fragment, the upgrade was attempted for a, b, c
\* in this order, and each got exactly one connected notification.
C5_NestedSubtreeConnected ==
  (/\ drain = <<>>
   /\ last.cb = NoCallback
   /\ last.name \in Insertions
   /\ last.native
   /\ last.node \in {"a", Frag}
   /\ {"a", "b", "c"} \subseteq last.preUndef
   /\ "a" \notin last.preConn
   /\ \A e \in {"a", "b", "c"} : localName[e] = "x-ok"
   /\ children["a"] = <<"b">> /\ children["b"] = <<"c">> /\ children["c"] = <<>>
   /\ ParentOf(children, "a") = last.this
   /\ isConnected(children, "a"))
  => /\ last.att = <<"a", "b", "c">>
     /\ \A e \in {"a", "b", "c"} : Count(fired, Reaction("connected", e)) = 1

\* C6: in a single call no element is covered by two disconnectTree walks
\* or by two connectTree walks, and none is covered when the native
\* mutation did not take place.
C6_WalksOncePerChange ==
  last.name \in {"insertBefore", "appendChild", "removeChild", "replaceChild",
                 "textContent", "insertAdjacentElement"}
  => /\ NoDup(last.dC)
     /\ NoDup(last.cC)
     /\ ~last.native => last.dC = <<>> /\ last.cC = <<>>

\* C7: every element that was custom and connected before a removing call
\* and is not connected after it had a disconnected notification requested
\* by that call.
C7_RemovedCustomNotified ==
  last.name \in {"removeChild", "replaceChild", "textContent", "innerHTML", "outerHTML"}
  => \A e \in last.preCC :
       ~isConnected(children, e) => InSeq(Reaction("disconnected", e), last.gen)

\* C8: when the connected callback of an element removed the element with
\* removeChild, the disconnected reaction of the element is in the frame
\* being drained, or was invoked from it after that callback.
C8_SelfRemovalQueuedForLaterPass ==
  (/\ last.cb.k = "connected"
   /\ last.name = "removeChild"
   /\ last.node = last.cb.n
   /\ last.native
   /\ last.node \in last.preCC)
  => \/ InSeq(Reaction("disconnected", last.node), drain)
     \/ \E j \in (last.at + 1)..Len(fired) : fired[j] = Reaction("disconnected", last.node)

\* C9: a call in which a construction threw did not raise, performed its
\* native mutation, left the stack as deep as it found it, reported one error
\* per failed construction, and the failed elements are in state failed
\* with no connected reaction anywhere.
C9_ConstructionFailureNeverAborts ==
  (last.cf # {} /\ last.name \in Insertions \cup {"cloneNode"})
  => /\ ~last.threw
     /\ last.native
     /\ Len(stack) = last.depth0
     /\ last.errs = Cardinality(last.cf)
     /\ \A e \in last.cf :
          /\ ceState[e] = "failed"
          /\ Reaction("connected", e) \notin AllReactions

\* C10: an element that was failed before a call is failed after it, and no
\* reaction (attribute-changed, connected, disconnected) for a failed element
\* is requested, queued, recorded or invoked.
C10_FailedIsInert ==
  /\ \A e \in last.preFailed : ceState[e] = "failed"
  /\ \A e \in Elems : ceState[e] = "failed" => \A r \in AllReactions : r.n # e

\* C10: the innerHTML setter ran on a connected element and removed a
\* failed descendant.
C10_FailedRemovedByInnerHTML ==
  /\ last.name = "innerHTML"
  /\ \E e \in last.preFailed : e \in last.preConn /\ ~isConnected(children, e)

AttrCalls == {"setAttribute", "setAttributeNS", "removeAttribute", "removeAttributeNS"}

\* C11: an attribute call dispatches attributeChangedCallback only with an
\* old value and a new value that differ.
C11_NoOpChangesNotDispatched ==
  last.name \in AttrCalls
  => \A i \in 1..Len(last.gen) :
       last.gen[i].k = "attributeChanged" => last.gen[i].o # last.gen[i].v

\* The values the native store held for the attribute of the latest
\* attribute call, before and after it.
StoredBefore ==
  IF last.arg[1] = Null THEN Native_getAttribute(last.preAt[last.this], last.arg[2])
  ELSE Native_getAttributeNS(last.preAt[last.this], last.arg[1], last.arg[2])

StoredAfter ==
  IF last.arg[1] = Null THEN Native_getAttribute(attrs[last.this], last.arg[2])
  ELSE Native_getAttributeNS(attrs[last.this], last.arg[1], last.arg[2])

\* C15: setAttribute and setAttributeNS on a custom element dispatch one
\* attribute-changed notification whose old value is the stored value
\* before the call, whose new value is the stored value after it, and
\* whose namespace is null for setAttribute and the given one for
\* setAttributeNS; what removeAttribute(NS) dispatches carries the same
\* old value and namespace.
C15_DispatchedValuesReadBack ==
  (last.name \in AttrCalls /\ ceState[last.this] = "custom")
  => /\ last.name \in {"setAttribute", "setAttributeNS"}
          => last.gen = <<AttrReaction(last.this, last.arg[2], StoredBefore,
                                        StoredAfter, last.arg[1])>>
     /\ \A i \in 1..Len(last.gen) :
          last.gen[i] = AttrReaction(last.this, last.arg[2], StoredBefore,
                                     last.gen[i].v, last.arg[1])
     /\ last.name \in {"setAttribute", "removeAttribute"} => last.arg[1] = Null

\* C15: setAttribute on a custom element with a value the store converts.
C15_ConvertedValueDispatched ==
  /\ last.name = "setAttribute"
  /\ ceState[last.this] = "custom"
  /\ last.arg[3] = "#7"
  /\ Len(last.gen) = 1
  /\ last.gen[1].v = "7"

\* The patch functions the latest call applied, and the nodes it applied
\* them to, in order.
PatchNames == {last.pat[i][1] : i \in 1..Len(last.pat)}

PatchRoots == [i \in 1..Len(last.pat) |-> last.pat[i][2]]

\* C12: cloneNode, the innerHTML and outerHTML setters and
\* insertAdjacentHTML apply only patchTree and attempt no upgrade when the
\* document has no registry, and apply patchAndUpgradeTree when it has one.
C12_UpgradeOnlyWithRegistry ==
  last.name \in {"cloneNode", "innerHTML", "outerHTML", "insertAdjacentHTML"}
  => IF ~RegistryAssociated
     THEN PatchNames \subseteq {"patchTree"} /\ last.att = <<>>
     ELSE PatchNames \subseteq {"patchAndUpgradeTree"}

ValidPositions == {"beforebegin", "afterbegin", "beforeend", "afterend"}

\* C14: an insertAdjacentHTML call whose position is, also after lower
\* casing, none of the four raises, makes no native insertion, patches and
\* upgrades nothing, generates no reaction and leaves tree, names,
\* lifecycle states, stack and queue as they were.
C14_BadPositionRaisesBeforeAnything ==
  [][(/\ opsLeft' = opsLeft - 1
      /\ last'.name = "insertAdjacentHTML"
      /\ ToLowerCase(last'.arg[1]) \notin ValidPositions)
     => /\ last'.threw
        /\ ~last'.native
        /\ last'.pat = <<>> /\ last'.att = <<>> /\ last'.gen = <<>>
        /\ last'.ins = <<>>
        /\ UNCHANGED <<children, localName, ceState, backlog, attrs, stack, drain>>]_vars

\* C14: insertAdjacentHTML was called with a position that is none of the
\* four.
C14_BadPositionCalled ==
  /\ last.name = "insertAdjacentHTML"
  /\ last.arg[1] = "bogus"
  /\ last.threw

\* C17: the nodes insertAdjacentHTML hands to patchAndUpgradeTree are, in
\* order, the siblings of the range as it was right after the native
\* insertion.
C17_RangeMaterializedFirst ==
  (last.name = "insertAdjacentHTML" /\ ~last.threw)
  => PatchRoots = last.rng /\ PatchNames \subseteq {"patchAndUpgradeTree"}

\* C17: the upgrade of an inserted node removed a later node of the range
\* from the tree, and that node was still patched and upgraded.
C17_LaterNodeRemovedByUpgrade ==
  /\ last.name = "insertAdjacentHTML"
  /\ ~last.threw
  /\ \E i \in 2..Len(last.rng) :
       /\ ParentOf(children, last.rng[i]) = Null
       /\ last.rng[i] \in Range(last.att)

\* C18: the nodes insertAdjacentHTML hands to patchAndUpgradeTree are
\* exactly the nodes the call inserted, each once, in document order.
C18_OnlyInsertedNodesPatched ==
  (last.name = "insertAdjacentHTML" /\ ~last.threw) => PatchRoots = last.ins

\* The reactions of the latest call that target element e.
GenFor(rec, e) == SelectSeq(rec.gen, LAMBDA r : r.n = e)

\* The elements of the subtrees an inserting call is about to insert: the
\* subtree of node, or of each child of a fragment.
InsertedElements(node) ==
  IF Kind(node) = "fragment"
  THEN Range(WalkList(children, children[node]))
  ELSE Range(walkDeepDescendantElements(children, node))

\* C13: when removeChild has disconnected node n and the next call,
\* appendChild or insertBefore, connects it again, and n is still neither
\* custom nor failed, neither call generated a reaction for n; and every
\* appendChild or insertBefore that connects an element which was custom
\* before the call generates exactly one connected reaction for it.
C13_ReconnectNotifications ==
  [][(/\ opsLeft' = opsLeft - 1
      /\ last'.name \in {"appendChild", "insertBefore"}
      /\ ~last'.threw)
     => /\ \A n \in Elems :
             (/\ last.name = "removeChild" /\ ~last.threw
              /\ last.node = n /\ n \in last.preConn
              /\ last'.node = n
              /\ isConnected(children', n)
              /\ ceState'[n] \notin {"custom", "failed"})
             => GenFor(last, n) = <<>> /\ GenFor(last', n) = <<>>
        /\ \A e \in InsertedElements(last'.node) :
             (ceState[e] = "custom" /\ isConnected(children', e))
             => Count(last'.gen, Reaction("connected", e)) = 1]_vars

\* C13: h, without definition, was removed from the document and appended
\* to it again, and the custom elements below it were connected again.
C13_Reconnected ==
  /\ last.name = "appendChild"
  /\ last.node = "h"
  /\ ~last.threw
  /\ opsLeft = 0
  /\ isConnected(children, "h")
  /\ ceState["h"] = "uncustomized"
  /\ "h" \notin last.preConn
  /\ Count(last.gen, Reaction("connected", "a")) = 1

C19_OuterHTMLPatchesReplacement ==
  [][(/\ opsLeft' = opsLeft - 1
      /\ last'.name = "outerHTML"
      /\ last'.native)
     => LET parentNode == ParentOf(children, last'.this)
        IN IF Len(children[parentNode]) > 1
           THEN PatchRoots' = last'.ins
           ELSE PatchRoots' \in {last'.ins, <<parentNode>>}]_vars

\* The disconnected reactions of the elements of seq that are custom.
DisconnectedOfCustom(seq) ==
  LET sel == SelectSeq(seq, LAMBDA e : ceState[e] = "custom")
  IN [i \in 1..Len(sel) |-> Reaction("disconnected", sel[i])]

\* C20: the reactions an innerHTML set requests begin with one disconnected
\* reaction for each descendant element that was custom before the set, in
\* document order of the old subtree, when the receiver was connected, and
\* with none when it was not; the call requests no other disconnected
\* reaction (none for the receiver, none for descendants that are not
\* custom); none was requested before the native set and all of them
\* before the first patch or upgrade.
C20_InnerHTMLNotifiesOldCustom ==
  [][(/\ opsLeft' = opsLeft - 1
      /\ last'.name = "innerHTML"
      /\ last'.native)
     => LET this == last'.this
            old == Without(walkDeepDescendantElements(children, this), this)
            expected == IF isConnected(children, this)
                        THEN DisconnectedOfCustom(old) ELSE <<>>
            k == Len(expected)
        IN /\ Len(last'.gen) >= k
           /\ SubSeq(last'.gen, 1, k) = expected
           /\ \A i \in (k + 1)..Len(last'.gen) : last'.gen[i].k # "disconnected"
           /\ last'.natAt = 0
           /\ \A i \in 1..Len(last'.pat) : last'.pat[i][3] >= k]_vars

\* C20: a.innerHTML was set to a defined element while a was connected
\* with its custom descendants b and c: disconnected was requested for b,
\* then c, and after them the connected reaction of the upgraded new child.
C20_OldNotifiedBeforeUpgrade ==
  /\ last.name = "innerHTML"
  /\ last.this = "a"
  /\ Len(last.gen) = 3
  /\ last.gen[1] = Reaction("disconnected", "b")
  /\ last.gen[2] = Reaction("disconnected", "c")
  /\ last.gen[3].k = "connected"
  /\ last.pat[1][3] = 2

\* C20: innerHTML was set on an element with a custom descendant while the
\* element was not connected, and nothing was requested.
C20_DisconnectedReceiverSilent ==
  /\ last.name = "innerHTML"
  /\ last.this = "a"
  /\ "a" \notin last.preConn
  /\ ceState["c"] = "custom"
  /\ last.gen = <<>>

\* The positions in seq of the reactions of kind k.
PositionsOfKind(seq, k) == {i \in 1..Len(seq) : seq[i].k = k}

\* C21: once insertBefore, appendChild or insertAdjacentElement has moved a
\* connected element to a connected position and the drain is over (no
\* callback having made a call of its own), each custom element of the
\* moved subtree had exactly one disconnected and exactly one connected
\* reaction requested and its two callbacks invoked once each, and every
\* disconnected callback was invoked before every connected callback.
C21_MoveNotifiesDisconnectedThenConnected ==
  (/\ drain = <<>>
   /\ last.cb = NoCallback
   /\ last.name \in {"insertBefore", "appendChild", "insertAdjacentElement"}
   /\ last.native /\ ~last.threw
   /\ last.node \in last.preConn
   /\ isConnected(children, last.node))
  => /\ \A e \in Range(walkDeepDescendantElements(children, last.node)) \cap last.preCC :
          \A k \in {"disconnected", "connected"} :
            /\ Count(last.gen, Reaction(k, e)) = 1
            /\ Count(fired, Reaction(k, e)) = 1
     /\ \A i \in PositionsOfKind(fired, "disconnected") :
          \A j \in PositionsOfKind(fired, "connected") : i < j

====
